---- MODULE Spec2Model ----
(***************************************************************************)
(* Model of the ctypes layer of RustPython:                                *)
(*   vm/src/stdlib/ctypes/loaders.rs   LIBCACHE and the four library       *)
(*                                     handle classes (CDLL, WinDLL,       *)
(*                                     OleDLL, PyDLL)                      *)
(*   vm/src/stdlib/ctypes/function.rs  Function::load, Function::call and  *)
(*                                     the function handle PyCFuncPtr      *)
(*                                                                         *)
(* Spec     : two threads run the library-open protocol step by step       *)
(*            (lock, check, load, insert, unlock) next to attribute        *)
(*            access, setters and calls.                                   *)
(* SpecCall : from the state after lib = CDLL("liba") and lib.f, one thread *)
(*            sets the metadata of the function handle and calls it, over  *)
(*            a wide range of metadata values and call-site arguments.     *)
(* SpecHandle : from the state after WinDLL("liba") and CDLL("liba"), one  *)
(*            thread creates function handles in both modes and callback   *)
(*            objects, sets their fields and calls them.                   *)
(* SpecPair : from the same state, one thread makes several function       *)
(*            handles by attribute access and works on them in turn.       *)
(* SpecStep : the call of a function handle in steps (before the native    *)
(*            call, the native call, the hook), two threads.               *)
(* SpecTags : the type table and the marshal adapters on their own.        *)
(***************************************************************************)
EXTENDS Naturals, Integers, Sequences, FiniteSets

VARIABLES
    libcache,     \* LIBCACHE: the map path string -> opened native library
    cacheWriter,  \* the thread holding the LIBCACHE.write() guard, or NoThread
    loadLog,      \* observation point: the successful Library::new calls (path, class)
    errs,         \* observation point: the paths whose open returned LoadError
    pc,           \* per thread: where it stands inside py_new
    local,        \* per thread: the arguments of the py_new it is running
    dlls,         \* the library handle objects constructed so far
    funcs,        \* the PyCFuncPtr objects constructed so far (index = identity)
    callbacks,    \* the PyCallbackObject objects constructed so far
    ev            \* observation point: the outcome of the last completed operation

vars == <<libcache, cacheWriter, loadLog, errs, pc, local, dlls, funcs, callbacks, ev>>

(***************************************************************************)
(* Bounds                                                                  *)
(***************************************************************************)
\* library handle objects kept alive at once
MaxDlls == 2
\* function handle objects kept alive at once
MaxFuncs == 2
\* longest call-site argument list
MaxArgs == 2
\* callback objects kept alive at once
MaxCallbacks == 1

(***************************************************************************)
(* Environment: threads, the file system, the native libraries             *)
(***************************************************************************)
Threads == {"t1", "t2"}
NoThread == "none"

\* Path strings handed to the constructors. "liba" and "./liba" are two
\* spellings of one file; "libx" names no file.
Paths == {"liba", "./liba", "libx"}
NoFile == "nofile"
FileOf(path) == IF path \in {"liba", "./liba"} THEN "/usr/lib/liba.so" ELSE NoFile

\* The symbols the native library exports.
Exports(file) == IF file = "/usr/lib/liba.so" THEN {"f"} ELSE {}

\* The machine words the native function "f" may leave in the return register.
NativeVals == {0, 5}

\* libloading's Library::new(path): the dynamic loader's answer.
LibraryNew(path) ==
    IF FileOf(path) # NoFile
    THEN [ok |-> TRUE, lib |-> [file |-> FileOf(path), id |-> Len(loadLog) + 1]]
    ELSE [ok |-> FALSE, lib |-> [file |-> NoFile, id |-> 0]]

(***************************************************************************)
(* Managed objects and results                                             *)
(***************************************************************************)
Obj(kind, tag, n, items) == [kind |-> kind, tag |-> tag, n |-> n, items |-> items]

\* Rust's Option::None in an Option<PyObjectRef> field
Unset == Obj("unset", "", 0, <<>>)
\* vm.ctx.none()
NoneObj == Obj("none", "", 0, <<>>)
\* vm.ctx.new_int(n)
PyInt(n) == Obj("int", "", n, <<>>)
\* vm.ctx.new_bool(b)
PyBool(b) == Obj("bool", "", IF b THEN 1 ELSE 0, <<>>)
\* vm.ctx.new_tuple(items)
PyTuple(items) == Obj("tuple", "", 0, items)
PyList(items) == Obj("list", "", 0, items)
\* a ctypes simple type (a subclass of PyCData) whose _type_ is tag
CType(tag) == Obj("ctype", tag, 0, <<>>)
\* a managed function that is not a type
PyFunc(name) == Obj("function", name, 0, <<>>)
\* a PyCFuncPtr object, by identity
FuncRef(h) == Obj("cfuncptr", "", h, <<>>)

\* obj.is_callable(vm): types and functions are callable
IsCallable(o) == o.kind \in {"ctype", "function", "pytype"}

\* PyResult: Ok(value) or Err(exception)
Ok(v) == [ok |-> TRUE, val |-> v, err |-> "", exp |-> 0, got |-> 0]
Err(e) == [ok |-> FALSE, val |-> NoneObj, err |-> e, exp |-> 0, got |-> 0]
ErrCount(e, expected, actual) ==
    [ok |-> FALSE, val |-> NoneObj, err |-> e, exp |-> expected, got |-> actual]

(***************************************************************************)
(* Library handles (loaders.rs)                                            *)
(***************************************************************************)
Classes == {"CDLL", "WinDLL", "OleDLL", "PyDLL"}

\* mutant of DefaultAbi: every class stores the C convention
DefaultAbi_AllCdecl(cls) == "Cdecl"

\* the default_abi each py_new stores
DefaultAbi(cls) == IF cls \in {"WinDLL", "OleDLL"} THEN "Stdcall" ELSE "Cdecl"

\* let library_path = name.as_str(): the registry key open uses for a path
LibraryPath(name) == name

NoLocal == [cls |-> "", path |-> "", loaded |-> FALSE]
\* Option<String>::None in PyCFuncPtr::library_name
NoLibrary == ""

\* the fields of a PyCFuncPtr object
FuncPtr(name, restype, handler, abi, library_name, argtypes, errcheck) ==
    [name |-> name, restype |-> restype, handler |-> handler, abi |-> abi,
     library_name |-> library_name, argtypes |-> argtypes, errcheck |-> errcheck]

NoFn == FuncPtr("", Unset, NoneObj, "", NoLibrary, Unset, Unset)

\* the outcome of an operation as its caller and an observer of the native
\* side see it: the operation (for an open, with the thread that ran it),
\* its inputs, the handle as it stood when the operation began, the word the
\* native function returned and how often it ran, the result of
\* Function::load and Function::call (raw), the managed callables invoked,
\* in order, and the final result
NoEv == [op |-> "init", t |-> NoThread, cls |-> "", path |-> "", loaded |-> FALSE,
         errsBefore |-> {}, h |-> 0, fn |-> NoFn, input |-> Unset, args |-> <<>>,
         word |-> 0, native |-> 0, cif_abi |-> "", ffi_ret |-> "", raw |-> Ok(NoneObj),
         invoked |-> <<>>, res |-> Ok(NoneObj)]

\* mutant of WriteLockFree: the write lock excludes nobody
WriteLockFree_NotExclusive == TRUE

\* the threads holding a LIBCACHE.read() guard across steps: the calls that
\* are inside the native function or the hook (a call done in one step, and
\* __getattr__, take and drop their guard inside the step)
CacheReaders ==
    {u \in Threads : pc[u] \in {"native", "hook"} /\ "libcache" \in local[u].guards}

\* LIBCACHE.write() returns once no other guard is held, neither the write
\* guard nor a read guard
WriteLockFree == cacheWriter = NoThread /\ CacheReaders = {}

\* LIBCACHE.read() returns once no write guard is held
ReadLockFree == cacheWriter = NoThread

\* lib_cache_guard.contains_key(library_path)
ContainsKey(key) == key \in DOMAIN libcache

\* mutant of Insert: the insert drops the other entries
Insert_Replacing(key, lib) == [k \in {key} |-> lib]

\* lib_cache_guard.insert(key, lib)
Insert(key, lib) == [k \in DOMAIN libcache \cup {key} |->
                        IF k = key THEN lib ELSE libcache[k]]

\* mutant of NewDll: the handle keeps the file the loader found, not the key
NewDll_Canonical(cls, key) ==
    [cls |-> cls, library_name |-> FileOf(key), default_abi |-> DefaultAbi(cls)]

\* the object py_new returns
NewDll(cls, key) == [cls |-> cls, library_name |-> key, default_abi |-> DefaultAbi(cls)]

\* the model keeps at most MaxDlls library handle objects alive
DllRoom(d) == d \in dlls \/ Cardinality(dlls) < MaxDlls

\* py_new(cls, name) up to the contains_key check: LIBCACHE.write() is
\* granted (a thread that finds the lock held waits here, having changed
\* nothing), then the key is looked up
OpenAcquire(t, cls, name) ==
    /\ pc[t] = "idle"
    /\ DllRoom(NewDll(cls, LibraryPath(name)))
    /\ WriteLockFree
    /\ cacheWriter' = t
    /\ local' = [local EXCEPT ![t] = [cls |-> cls, path |-> LibraryPath(name),
                                       loaded |-> FALSE]]
    /\ pc' = [pc EXCEPT ![t] = IF ContainsKey(LibraryPath(name)) THEN "drop" ELSE "load"]
    /\ UNCHANGED <<libcache, loadLog, errs, dlls, funcs, callbacks, ev>>

\* mutant of GuardAfterError: the error path keeps the guard
GuardAfterError_Leaked(t) == t

\* the guard a failing py_new gives back: `return Err(..)` drops lib_cache_guard
GuardAfterError(t) == NoThread

\* mutant of CacheAfterError: the failure is recorded under the key
CacheAfterError_Marker(key) == Insert(key, [file |-> NoFile, id |-> 0])

\* what a failed Library::new leaves in the map: nothing is inserted
CacheAfterError(key) == libcache

\* py_new: Library::new, then insert or return Err
OpenLoad(t) ==
    /\ pc[t] = "load"
    /\ LET key == local[t].path
           r == LibraryNew(key)
       IN IF r.ok
          THEN /\ libcache' = Insert(key, r.lib)
               /\ loadLog' = Append(loadLog, [path |-> key, cls |-> local[t].cls])
               /\ pc' = [pc EXCEPT ![t] = "drop"]
               /\ local' = [local EXCEPT ![t].loaded = TRUE]
               /\ UNCHANGED <<cacheWriter, errs, ev>>
          ELSE /\ libcache' = CacheAfterError(key)
               /\ cacheWriter' = GuardAfterError(t)
               /\ errs' = errs \cup {key}
               /\ pc' = [pc EXCEPT ![t] = "idle"]
               /\ local' = [local EXCEPT ![t] = NoLocal]
               /\ ev' = [NoEv EXCEPT !.op = "open", !.t = t, !.path = key, !.loaded = TRUE,
                                     !.errsBefore = errs, !.res = Err("LoadError")]
               /\ UNCHANGED loadLog
    /\ UNCHANGED <<dlls, funcs, callbacks>>

\* py_new: drop(lib_cache_guard) and Ok(PyCDLL {..})
OpenDrop(t) ==
    /\ pc[t] = "drop"
    /\ cacheWriter' = NoThread
    /\ dlls' = dlls \cup {NewDll(local[t].cls, local[t].path)}
    /\ pc' = [pc EXCEPT ![t] = "idle"]
    /\ local' = [local EXCEPT ![t] = NoLocal]
    /\ ev' = [NoEv EXCEPT !.op = "open", !.t = t, !.path = local[t].path,
                          !.loaded = local[t].loaded,
                          !.res = Ok(Obj("dll", local[t].path, 0, <<>>))]
    /\ UNCHANGED <<libcache, loadLog, errs, funcs, callbacks>>

(***************************************************************************)
(* The type table and the managed callables (collaborators of function.rs) *)
(***************************************************************************)
\* base::ffi_type_from_str: the native type of a one-character tag, "" for
\* a tag outside the table
FfiTypeFromStr(tag) ==
    CASE tag \in {"i", "l"} -> "sint32"
      [] tag \in {"I", "L"} -> "uint32"
      [] tag = "q" -> "sint64"
      [] tag = "Q" -> "uint64"
      [] tag = "b" -> "sint8"
      [] tag = "B" -> "uint8"
      [] tag = "h" -> "sint16"
      [] tag = "H" -> "uint16"
      [] tag = "f" -> "float"
      [] tag = "d" -> "double"
      [] tag = "?" -> "uint8"
      [] tag \in {"P", "z"} -> "pointer"
      [] OTHER -> ""

\* ctypes_type_obj.get_attr("_type_", vm): only ctypes simple types carry one
HasTypeAttr(o) == o.kind = "ctype"

\* obj.downcast::<PyTypeRef>() succeeds: the object is a type
IsPyType(o) == o.kind \in {"ctype", "pytype"}

\* py_type.is_subclass(PyCData::class(..)): the type is a ctypes type
IsCtypesType(o) == o.kind = "ctype"

\* vm.is_none(obj)
IsNone(o) == o.kind = "none"

\* What invoking a managed callable with the arguments a returns. Three
\* callables stand for the managed code a program may install:
\*   dbl    doubles its first argument (fails on a non-integer)
\*   third  returns its third argument (fails when given fewer)
\*   boom   always raises
CallManaged(f, a) ==
    CASE f.tag = "dbl" ->
            IF Len(a) >= 1 /\ a[1].kind = "int" THEN Ok(PyInt(2 * a[1].n))
            ELSE Err("CallableRaised")
      [] f.tag = "third" ->
            IF Len(a) >= 3 THEN Ok(a[3]) ELSE Err("CallableRaised")
      [] OTHER -> Err("CallableRaised")

(***************************************************************************)
(* Function::load and Function::call (function.rs)                         *)
(***************************************************************************)
NoFunction == [args |-> <<>>, ffi_return_type |-> "", original_restype |-> Unset,
               cif_abi |-> ""]
LoadOk(f) == [ok |-> TRUE, err |-> "", func |-> f]
LoadErr(e) == [ok |-> FALSE, err |-> e, func |-> NoFunction]

\* one element of the _argtypes_ tuple resolved to its ffi type, "" on failure
ArgFfiType(o) == IF HasTypeAttr(o) THEN FfiTypeFromStr(o.tag) ELSE ""

\* the ffi_arg_types vector: the declared types, or the empty vector when
\* _argtypes_ is absent or None
FfiArgTypes(argtypes_opt) ==
    IF argtypes_opt.kind = "tuple"
    THEN [i \in 1..Len(argtypes_opt.items) |-> ArgFfiType(argtypes_opt.items[i])]
    ELSE <<>>

\* the first match of Function::load: does building ffi_arg_types fail?
ArgTypesError(argtypes_opt) ==
    CASE argtypes_opt.kind = "tuple" ->
            IF \E i \in 1..Len(argtypes_opt.items) : ArgFfiType(argtypes_opt.items[i]) = ""
            THEN "UnsupportedType" ELSE ""
      [] argtypes_opt.kind \in {"none", "unset"} -> ""
      [] OTHER -> "ArgtypesNotTuple"

\* mutant of ClassifyRestype: the callable test comes before the type test
ClassifyRestype_CallableFirst(restype_obj) ==
    IF restype_obj.kind = "unset" \/ IsNone(restype_obj)
    THEN [err |-> "", ffi |-> "void", stored |-> Unset]
    ELSE IF IsCallable(restype_obj)
         THEN [err |-> "", ffi |-> "sint32", stored |-> restype_obj]
         ELSE [err |-> "InvalidReturnSpec", ffi |-> "", stored |-> Unset]

\* the restype match of Function::load:
\* (determined_ffi_return_type, stored_original_restype) or an error
ClassifyRestype(restype_obj) ==
    IF restype_obj.kind = "unset" \/ IsNone(restype_obj)
    THEN [err |-> "", ffi |-> "void", stored |-> Unset]
    ELSE IF IsPyType(restype_obj)
         THEN IF IsCtypesType(restype_obj)
              THEN IF FfiTypeFromStr(restype_obj.tag) = ""
                   THEN [err |-> "UnsupportedType", ffi |-> "", stored |-> Unset]
                   ELSE [err |-> "", ffi |-> FfiTypeFromStr(restype_obj.tag),
                         stored |-> restype_obj]
              ELSE IF IsCallable(restype_obj)
                   THEN [err |-> "", ffi |-> "sint32", stored |-> restype_obj]
                   ELSE [err |-> "InvalidReturnSpec", ffi |-> "", stored |-> Unset]
         ELSE IF IsCallable(restype_obj)
              THEN [err |-> "", ffi |-> "sint32", stored |-> restype_obj]
              ELSE [err |-> "InvalidReturnSpec", ffi |-> "", stored |-> Unset]

\* Function::load(library, function, argtypes_opt, restype_obj, abi)
FunctionLoad(library, function, argtypes_opt, restype_obj, abi) ==
    IF ArgTypesError(argtypes_opt) # "" THEN LoadErr(ArgTypesError(argtypes_opt))
    ELSE IF function \notin Exports(library.file) THEN LoadErr("SymbolNotFound")
    ELSE IF ClassifyRestype(restype_obj).err # "" THEN LoadErr(ClassifyRestype(restype_obj).err)
    ELSE LoadOk([args |-> FfiArgTypes(argtypes_opt),
                 ffi_return_type |-> ClassifyRestype(restype_obj).ffi,
                 original_restype |-> ClassifyRestype(restype_obj).stored,
                 cif_abi |-> "Default"])

\* mutant of ArityOk: only too many arguments are refused
ArityOk_AtMost(func, args) == Len(args) <= Len(func.args)

\* the arity test of Function::call: the call goes on only when it holds
ArityOk(func, args) == Len(args) = Len(func.args)

\* mutant of Convertible: every value is handed to the native function
Convertible_Any(a) == TRUE

\* the conversion loop of Function::call: PyCSimple and PyCArray values
\* convert, any other value stops the call
Convertible(a) == a.kind \in {"csimple", "carray"}

\* mutant of Signed: the low bits are read as an unsigned number
Signed_Raw(w, bits) == w % (2 ^ bits)

\* two's complement reading of the low `bits` bits of w
Signed(w, bits) == IF (w % (2 ^ bits)) >= 2 ^ (bits - 1)
                   THEN (w % (2 ^ bits)) - 2 ^ bits ELSE w % (2 ^ bits)

\* the result match of Function::call for a ctypes restype with this tag,
\* the native function having returned the word w
DecodeTyped(tag, w) ==
    CASE tag \in {"i", "l", "q"} -> Ok(PyInt(w))
      [] tag \in {"I", "L", "Q"} -> Ok(PyInt(w))
      [] tag = "b" -> Ok(PyInt(Signed(w, 8)))
      [] tag = "B" -> Ok(PyInt(w % 256))
      [] tag = "h" -> Ok(PyInt(Signed(w, 16)))
      [] tag = "H" -> Ok(PyInt(w % 65536))
      [] tag \in {"f", "d"} -> Ok(Obj("float", "", w, <<>>))
      [] tag = "?" -> Ok(PyBool((w % 256) # 0))
      [] tag = "P" -> IF w = 0 THEN Ok(NoneObj) ELSE Ok(PyInt(w))
      [] tag = "z" -> IF w = 0 THEN Ok(NoneObj) ELSE Ok(Obj("bytes", "", w, <<>>))
      [] OTHER -> Err("UnsupportedType")

\* the one-character tags tried: the table and two tags outside it
Tags == {"i", "l", "I", "L", "q", "Q", "b", "B", "h", "H", "f", "d", "?", "P", "z",
         "Z", "x"}

\* values of the range of a tag, ends of the range included where they fit
\* the integers of the checker (a float, an address and a byte string are
\* named by a number; 0 names the null pointer)
TagValues(tag) ==
    CASE tag = "b" -> {-128, -127, -1, 0, 1, 126, 127}
      [] tag = "B" -> {0, 1, 127, 128, 254, 255}
      [] tag = "h" -> {-32768, -129, -1, 0, 1, 128, 32767}
      [] tag = "H" -> {0, 1, 256, 32767, 32768, 65535}
      [] tag \in {"i", "l", "q"} -> {-2147483647, -65536, -1, 0, 1, 65535, 2147483647}
      [] tag \in {"I", "L", "Q"} -> {0, 1, 255, 65535, 65536, 2147483647}
      [] tag = "?" -> {0, 1}
      [] tag \in {"f", "d"} -> {-1, 0, 1, 3}
      [] tag \in {"P", "z"} -> {0, 4096, 8192}
      [] OTHER -> {}

\* the managed value a simple ctypes object of this tag holds
ManagedValue(tag, v) ==
    CASE tag = "?" -> PyBool(v # 0)
      [] tag \in {"f", "d"} -> Obj("float", "", v, <<>>)
      [] tag = "P" -> IF v = 0 THEN NoneObj ELSE PyInt(v)
      [] tag = "z" -> IF v = 0 THEN NoneObj ELSE Obj("bytes", "", v, <<>>)
      [] OTHER -> PyInt(v)

\* PyCSimple::to_arg: the words the native side may see for the value v of
\* this tag; a value narrower than the word arrives zero-extended or
\* sign-extended
EncodeWords(tag, v) ==
    CASE tag \in {"b", "B"} -> {v % 256, v}
      [] tag \in {"h", "H"} -> {v % 65536, v}
      [] OTHER -> {v}

\* ffi_type_from_str applied to a tag
ResolveTag(t, tag) ==
    /\ pc[t] = "idle"
    /\ ev' = [NoEv EXCEPT !.op = "resolve_tag", !.input = Obj("str", tag, 0, <<>>),
                          !.res = IF FfiTypeFromStr(tag) # ""
                                  THEN Ok(Obj("ffi_type", FfiTypeFromStr(tag), 0, <<>>))
                                  ELSE Err("UnsupportedType")]
    /\ UNCHANGED <<libcache, cacheWriter, loadLog, errs, pc, local, dlls, funcs, callbacks>>

\* a value of a tag is converted for the native side and the word the
\* native side saw is read back as a result of that tag
RoundTrip(t, tag, v) ==
    /\ pc[t] = "idle"
    /\ FfiTypeFromStr(tag) # ""
    /\ \E w \in EncodeWords(tag, v) :
           ev' = [NoEv EXCEPT !.op = "roundtrip", !.input = Obj("csimple", tag, v, <<>>),
                              !.word = w, !.raw = DecodeTyped(tag, w),
                              !.res = DecodeTyped(tag, w)]
    /\ UNCHANGED <<libcache, cacheWriter, loadLog, errs, pc, local, dlls, funcs, callbacks>>

\* mutant of VoidReturn: the native word is handed back
VoidReturn_Word(w) == Ok(PyInt(w))

\* the None arm of the result match: cif.call::<()> and vm.ctx.none()
VoidReturn(w) == Ok(NoneObj)

NoCallOut == [res |-> Ok(NoneObj), native |-> 0, invoked |-> <<>>]
Invocation(role, f, a) == [role |-> role, f |-> f, a |-> a]

\* mutant of TransformedReturn: the integer is handed back as it is
TransformedReturn_Skipped(f, w) == [NoCallOut EXCEPT !.res = Ok(PyInt(w)), !.native = 1]

\* the callable arm of the result match: cif.call::<i32>, then the callable
\* is called with the integer as its only argument
TransformedReturn(f, w) ==
    [NoCallOut EXCEPT !.res = CallManaged(f, <<PyInt(w)>>),
                      !.native = 1,
                      !.invoked = <<Invocation("restype", f, <<PyInt(w)>>)>>]

\* Function::call(&self, args), the native function returning the word w:
\* the result, how often the native function ran, the callables invoked
FunctionCall(func, args, w) ==
    IF ~ArityOk(func, args)
    THEN [NoCallOut EXCEPT !.res = ErrCount("ArgumentCountError", Len(func.args), Len(args))]
    ELSE IF \E i \in 1..Len(args) : ~Convertible(args[i])
    THEN [NoCallOut EXCEPT !.res = Err("UnsupportedArgumentType")]
    ELSE IF func.original_restype.kind = "unset"
    THEN [NoCallOut EXCEPT !.res = VoidReturn(w), !.native = 1]
    ELSE IF IsCtypesType(func.original_restype)
    THEN [NoCallOut EXCEPT !.res = DecodeTyped(func.original_restype.tag, w),
                           !.native = IF FfiTypeFromStr(func.original_restype.tag) = ""
                                      THEN 0 ELSE 1]
    ELSE IF IsCallable(func.original_restype)
    THEN TransformedReturn(func.original_restype, w)
    ELSE [NoCallOut EXCEPT !.res = Err("InvalidReturnSpec")]

(***************************************************************************)
(* PyCFuncPtr: construction, call protocol, accessors (function.rs)        *)
(***************************************************************************)
\* mutant of NewForDll: the convention of the class that loaded the library
NewForDll_LoaderAbi(name, library_name, abi) ==
    FuncPtr(name, Unset, NoneObj,
            DefaultAbi(loadLog[libcache[library_name].id].cls),
            library_name, Unset, Unset)

\* mutant of NewForDll: a handle of that name and library that exists is
\* copied
NewForDll_Memoized(name, library_name, abi) ==
    IF \E h \in 1..Len(funcs) : funcs[h].name = name /\ funcs[h].library_name = library_name
    THEN funcs[CHOOSE h \in 1..Len(funcs) :
                   funcs[h].name = name /\ funcs[h].library_name = library_name]
    ELSE FuncPtr(name, Unset, NoneObj, abi, library_name, Unset, Unset)

\* PyCFuncPtr::new_for_dll(name, library_name, abi)
NewForDll(name, library_name, abi) ==
    FuncPtr(name, Unset, NoneObj, abi, library_name, Unset, Unset)

\* the _abi_ getter: the name of the stored calling convention
GetAbi(fn) ==
    CASE fn.abi = "Cdecl" -> "cdecl"
      [] fn.abi = "Stdcall" -> "stdcall"
      [] fn.abi = "Default" -> "default"
      [] OTHER -> "unknown"

\* Constructor::py_new of PyCFuncPtr with the tuple (name, handler): the
\* handle is bound to the handler, with the C convention and no library
PyCFuncPtrNew(t, tuple) ==
    /\ pc[t] = "idle"
    /\ Len(funcs) < MaxFuncs
    /\ IF Len(tuple.items) < 2 \/ tuple.items[1].kind # "str"
       THEN /\ funcs' = funcs
            /\ ev' = [NoEv EXCEPT !.op = "new", !.input = tuple, !.res = Err("TypeError")]
       ELSE LET fn == FuncPtr(tuple.items[1].tag, Unset, tuple.items[2], "Cdecl",
                              NoLibrary, Unset, Unset)
            IN /\ funcs' = Append(funcs, fn)
               /\ ev' = [NoEv EXCEPT !.op = "new", !.input = tuple,
                                     !.h = Len(funcs) + 1, !.fn = fn,
                                     !.res = Ok(FuncRef(Len(funcs) + 1))]
    /\ UNCHANGED <<libcache, cacheWriter, loadLog, errs, pc, local, dlls, callbacks>>

\* Option<PyCallbackSignature>::None
NoSignature == "none"

\* the fields of a PyCallbackObject
CallbackObject(callable, signature) == [callable |-> callable, signature |-> signature]

\* the model keeps at most MaxCallbacks callback objects alive
CallbackRoom(c) == c \in callbacks \/ Cardinality(callbacks) < MaxCallbacks

\* mutant of CallbackAccepts: no validation
CallbackAccepts_Any(callable_arg) == TRUE

\* the validation of PyCallbackObject::py_new: callable_arg.is_callable(vm)
CallbackAccepts(callable_arg) == IsCallable(callable_arg)

\* Constructor::py_new of PyCallbackObject
PyCallbackNew(t, callable_arg) ==
    /\ pc[t] = "idle"
    /\ CallbackAccepts(callable_arg) => CallbackRoom(CallbackObject(callable_arg, NoSignature))
    /\ IF ~CallbackAccepts(callable_arg)
       THEN /\ callbacks' = callbacks
            /\ ev' = [NoEv EXCEPT !.op = "new_callback", !.input = callable_arg,
                                  !.res = Err("NotCallable")]
       ELSE /\ callbacks' = callbacks \cup {CallbackObject(callable_arg, NoSignature)}
            /\ ev' = [NoEv EXCEPT !.op = "new_callback", !.input = callable_arg,
                                  !.res = Ok(Obj("callback", "", 0, <<callable_arg>>))]
    /\ UNCHANGED <<libcache, cacheWriter, loadLog, errs, pc, local, dlls, funcs>>

\* __getattr__ of a library handle: the LIBCACHE lookup, then new_for_dll
GetAttr(t, d, name) ==
    /\ pc[t] = "idle"
    /\ d \in dlls
    /\ Len(funcs) < MaxFuncs
    /\ ReadLockFree
    /\ IF ContainsKey(d.library_name)
       THEN /\ funcs' = Append(funcs, NewForDll(name, d.library_name, d.default_abi))
            /\ ev' = [NoEv EXCEPT !.op = "getattr", !.cls = d.cls,
                                  !.path = d.library_name, !.h = Len(funcs) + 1,
                                  !.fn = NewForDll(name, d.library_name, d.default_abi),
                                  !.res = Ok(FuncRef(Len(funcs) + 1))]
       ELSE /\ funcs' = funcs
            /\ ev' = [NoEv EXCEPT !.op = "getattr", !.cls = d.cls,
                                  !.path = d.library_name,
                                  !.res = Err("LibraryNotFound")]
    /\ UNCHANGED <<libcache, cacheWriter, loadLog, errs, pc, local, dlls, callbacks>>

\* mutant of HookArgs: the handle and the argument tuple change places
HookArgs_Swapped(raw, h, args) == <<raw, PyTuple(args), FuncRef(h)>>

\* the arguments vm.invoke hands to the error-check hook
HookArgs(raw, h, args) == <<raw, FuncRef(h), PyTuple(args)>>

\* mutant of RunsErrcheck: the hook also runs when func.call failed
RunsErrcheck_Always(raw, errcheck) == errcheck.kind # "unset"

\* `if let Some(errcheck_callable) = zelf._errcheck_.read().clone()`, reached
\* only when func.call(..)? returned Ok
RunsErrcheck(raw, errcheck) == raw.ok /\ errcheck.kind # "unset"

\* the value PyCFuncPtr::call returns once func.call returned raw
FinalResult(raw, fn, h, args) ==
    IF RunsErrcheck(raw, fn.errcheck)
    THEN CallManaged(fn.errcheck, HookArgs(raw.val, h, args))
    ELSE raw

\* the PyRwLock fields of a PyCFuncPtr
MetadataFields == {"name", "restype", "argtypes", "abi", "errcheck"}

\* the local variables of a PyCFuncPtr::call that has reached the native
\* call: the handle, the arguments, the values read from the fields, the
\* loaded Function, the read guards that are alive, and, once the native
\* function has returned, its word, the outcome of func.call and the hook
\* read from _errcheck_
CallFrame(h, args, fn, func, guards) ==
    [h |-> h, args |-> args, fn |-> fn, func |-> func, guards |-> guards,
     word |-> 0, c |-> NoCallOut, errcheck |-> Unset]

\* the guards alive from the native call on: lib_cache_guard (line 331) and
\* `name` (line 336) are named locals and live to the end of the block; the
\* guards of _restype_, _argtypes_ and abi are temporaries of their
\* statements (lines 337-339) and are gone
GuardsAtNativeCall == {"libcache", "name"}

\* the guard added by `if let Some(..) = zelf._errcheck_.read().clone()`: the
\* temporary of the scrutinee lives as long as the if-let body
GuardsAtHook == {"errcheck"}

\* thread u holds the read guard g of handle h
Holds(u, h, g) ==
    /\ pc[u] \in {"native", "hook"}
    /\ local[u].h = h
    /\ g \in local[u].guards

\* field.write() of handle h returns: no read guard of the field is alive
\* (the lock is not reentrant: the guard of the asking thread counts)
WriteGrantable(h, field) == \A u \in Threads : ~Holds(u, h, field)

\* mutant of CurrentMetadata: the values from before the latest setter
CurrentMetadata_Stale(h) ==
    IF ev.op \in {"set_restype", "set_argtypes"} /\ ev.h = h THEN ev.fn ELSE funcs[h]

\* the values PyCFuncPtr::call hands to Function::load: the fields of the
\* handle, read when the call is made
CurrentMetadata(h) == funcs[h]

\* mutant of MetadataAfterCall: the call consumes the return specification
MetadataAfterCall_Consumed(fn) == [fn EXCEPT !.restype = Unset]

\* the fields of the handle once PyCFuncPtr::call is over: the call takes
\* read guards only
MetadataAfterCall(fn) == fn

NoCall == [raw |-> Ok(NoneObj), native |-> 0, cif_abi |-> "", ffi_ret |-> "",
           invoked |-> <<>>, res |-> Ok(NoneObj)]

\* mutant of CallbackCall: the wrapped callable is invoked
CallbackCall_InvokesHandler(fn, args) ==
    [NoCall EXCEPT !.raw = CallManaged(fn.handler, args),
                   !.invoked = <<Invocation("handler", fn.handler, args)>>,
                   !.res = CallManaged(fn.handler, args)]

\* the else arm of PyCFuncPtr::call: a handle without library_name
CallbackCall(fn, args) ==
    [NoCall EXCEPT !.raw = Err("Unimplemented"), !.res = Err("Unimplemented")]

\* Callable::call of PyCFuncPtr for the handle with the fields fn and the
\* identity h, the native function returning the word w
PyCFuncPtrCall(fn, h, args, w) ==
    IF fn.library_name # NoLibrary
    THEN IF ~ContainsKey(fn.library_name)
         THEN [NoCall EXCEPT !.raw = Err("LibraryNotFound"),
                             !.res = Err("LibraryNotFound")]
         ELSE LET ld == FunctionLoad(libcache[fn.library_name], fn.name, fn.argtypes,
                                     fn.restype, fn.abi)
                  c == FunctionCall(ld.func, args, w)
              IN IF ~ld.ok
                 THEN [NoCall EXCEPT !.raw = Err(ld.err), !.res = Err(ld.err)]
                 ELSE [raw |-> c.res, native |-> c.native,
                       cif_abi |-> ld.func.cif_abi,
                       ffi_ret |-> ld.func.ffi_return_type,
                       invoked |-> IF RunsErrcheck(c.res, fn.errcheck)
                                   THEN Append(c.invoked,
                                               Invocation("errcheck", fn.errcheck,
                                                          HookArgs(c.res.val, h, args)))
                                   ELSE c.invoked,
                       res |-> FinalResult(c.res, fn, h, args)]
    ELSE CallbackCall(fn, args)

\* a call of handle h with the call-site arguments args
Call(t, h, args, w) ==
    /\ pc[t] = "idle"
    /\ h \in 1..Len(funcs)
    /\ funcs[h].library_name # NoLibrary => ReadLockFree
    /\ LET out == PyCFuncPtrCall(CurrentMetadata(h), h, args, w)
       IN ev' = [NoEv EXCEPT !.op = "call", !.h = h, !.fn = funcs[h],
                             !.args = args, !.native = out.native,
                             !.word = IF out.native > 0 THEN w ELSE 0,
                             !.cif_abi = out.cif_abi, !.ffi_ret = out.ffi_ret,
                             !.raw = out.raw,
                             !.invoked = out.invoked, !.res = out.res]
    /\ funcs' = [funcs EXCEPT ![h] = MetadataAfterCall(funcs[h])]
    /\ UNCHANGED <<libcache, cacheWriter, loadLog, errs, pc, local, dlls, callbacks>>

\* the event of a setter
SetterEv(op, h, value, res) ==
    [NoEv EXCEPT !.op = op, !.h = h, !.fn = funcs[h], !.input = value,
                 !.res = res]

\* set_name: *self.name.write() = name
SetName(t, h, name) ==
    /\ pc[t] = "idle"
    /\ h \in 1..Len(funcs)
    /\ WriteGrantable(h, "name")
    /\ funcs' = [funcs EXCEPT ![h].name = name]
    /\ ev' = SetterEv("set_name", h, Obj("str", name, 0, <<>>), Ok(NoneObj))
    /\ UNCHANGED <<libcache, cacheWriter, loadLog, errs, pc, local, dlls, callbacks>>

\* set_restype: None clears the field, any other object is stored
SetRestype(t, h, restype) ==
    /\ pc[t] = "idle"
    /\ h \in 1..Len(funcs)
    /\ WriteGrantable(h, "restype")
    /\ funcs' = [funcs EXCEPT ![h].restype = IF IsNone(restype) THEN Unset ELSE restype]
    /\ ev' = SetterEv("set_restype", h, restype, Ok(NoneObj))
    /\ UNCHANGED <<libcache, cacheWriter, loadLog, errs, pc, local, dlls, callbacks>>

\* mutant of TupleOfList: the list itself is stored
TupleOfList_AsIs(value) == value

\* vm.ctx.new_tuple(list_obj.borrow_vec().to_vec())
TupleOfList(value) == PyTuple(value.items)

\* set_argtypes: None clears, a tuple is stored, a list is stored as a
\* tuple, anything else is a TypeError
SetArgtypes(t, h, value) ==
    /\ pc[t] = "idle"
    /\ h \in 1..Len(funcs)
    /\ CASE IsNone(value) ->
              /\ WriteGrantable(h, "argtypes")
              /\ funcs' = [funcs EXCEPT ![h].argtypes = Unset]
              /\ ev' = SetterEv("set_argtypes", h, value, Ok(NoneObj))
         [] value.kind = "tuple" ->
              /\ WriteGrantable(h, "argtypes")
              /\ funcs' = [funcs EXCEPT ![h].argtypes = value]
              /\ ev' = SetterEv("set_argtypes", h, value, Ok(NoneObj))
         [] value.kind = "list" ->
              /\ WriteGrantable(h, "argtypes")
              /\ funcs' = [funcs EXCEPT ![h].argtypes = TupleOfList(value)]
              /\ ev' = SetterEv("set_argtypes", h, value, Ok(NoneObj))
         [] OTHER ->
              /\ funcs' = funcs
              /\ ev' = SetterEv("set_argtypes", h, value, Err("TypeError"))
    /\ UNCHANGED <<libcache, cacheWriter, loadLog, errs, pc, local, dlls, callbacks>>

\* mutant of ErrcheckAccepts: no validation
ErrcheckAccepts_Any(value) == TRUE

\* the validation of set_errcheck: value.is_callable(vm)
ErrcheckAccepts(value) == IsCallable(value)

\* set_errcheck: None clears, a callable is stored, anything else is NotCallable
SetErrcheck(t, h, value) ==
    /\ pc[t] = "idle"
    /\ h \in 1..Len(funcs)
    /\ CASE IsNone(value) ->
              /\ WriteGrantable(h, "errcheck")
              /\ funcs' = [funcs EXCEPT ![h].errcheck = Unset]
              /\ ev' = SetterEv("set_errcheck", h, value, Ok(NoneObj))
         [] ~IsNone(value) /\ ErrcheckAccepts(value) ->
              /\ WriteGrantable(h, "errcheck")
              /\ funcs' = [funcs EXCEPT ![h].errcheck = value]
              /\ ev' = SetterEv("set_errcheck", h, value, Ok(NoneObj))
         [] OTHER ->
              /\ funcs' = funcs
              /\ ev' = SetterEv("set_errcheck", h, value, Err("NotCallable"))
    /\ UNCHANGED <<libcache, cacheWriter, loadLog, errs, pc, local, dlls, callbacks>>

(***************************************************************************)
(* PyCFuncPtr::call in steps: the native call and the hook take time       *)
(***************************************************************************)
\* the event of a call that is over
CallEv(h, fn, args, out, w) ==
    [NoEv EXCEPT !.op = "call", !.h = h, !.fn = fn, !.args = args,
                 !.native = out.native,
                 !.word = IF out.native > 0 THEN w ELSE 0,
                 !.cif_abi = out.cif_abi, !.ffi_ret = out.ffi_ret,
                 !.raw = out.raw, !.invoked = out.invoked, !.res = out.res]

\* PyCFuncPtr::call from its entry to the native call (lines 321-351 and the
\* arity test and conversion loop of Function::call): a failure ends the
\* call here, else the thread enters the native function
CallBegin(t, h, args) ==
    /\ pc[t] = "idle"
    /\ h \in 1..Len(funcs)
    /\ funcs[h].library_name # NoLibrary
    /\ ReadLockFree
    /\ LET fn == CurrentMetadata(h)
           out == PyCFuncPtrCall(fn, h, args, 0)
       IN IF out.native = 0
          THEN /\ ev' = CallEv(h, fn, args, out, 0)
               /\ UNCHANGED <<pc, local>>
          ELSE /\ pc' = [pc EXCEPT ![t] = "native"]
               /\ local' = [local EXCEPT ![t] =
                               CallFrame(h, args, fn,
                                         FunctionLoad(libcache[fn.library_name], fn.name,
                                                      fn.argtypes, fn.restype, fn.abi).func,
                                         GuardsAtNativeCall)]
               /\ UNCHANGED ev
    /\ UNCHANGED <<libcache, cacheWriter, loadLog, errs, dlls, funcs, callbacks>>

\* mutant of ErrcheckAtReturn: the hook the handle had when the call began
ErrcheckAtReturn_AtEntry(f) == f.fn.errcheck

\* `zelf._errcheck_.read().clone()` of line 353, in the call with the frame
\* f: the field as it is once func.call has returned
ErrcheckAtReturn(f) == funcs[f.h].errcheck

\* the native function returns the word w: the result match of
\* Function::call, then `zelf._errcheck_.read().clone()` (line 353); with a
\* hook set the thread enters the hook, else the call is over
CallNative(t, w) ==
    /\ pc[t] = "native"
    /\ LET f == local[t]
           c == FunctionCall(f.func, f.args, w)
           errcheck == ErrcheckAtReturn(f)
       IN IF RunsErrcheck(c.res, errcheck)
          THEN /\ pc' = [pc EXCEPT ![t] = "hook"]
               /\ local' = [local EXCEPT ![t] =
                               [f EXCEPT !.word = w, !.c = c, !.errcheck = errcheck,
                                         !.guards = @ \cup GuardsAtHook]]
               /\ UNCHANGED ev
          ELSE /\ pc' = [pc EXCEPT ![t] = "idle"]
               /\ local' = [local EXCEPT ![t] = NoLocal]
               /\ ev' = CallEv(f.h, f.fn, f.args,
                               [raw |-> c.res, native |-> c.native,
                                cif_abi |-> f.func.cif_abi,
                                ffi_ret |-> f.func.ffi_return_type,
                                invoked |-> c.invoked, res |-> c.res], w)
    /\ UNCHANGED <<libcache, cacheWriter, loadLog, errs, dlls, funcs, callbacks>>

\* the hook returns (line 360) and the block ends: every guard is dropped
CallHook(t) ==
    /\ pc[t] = "hook"
    /\ LET f == local[t]
           a == HookArgs(f.c.res.val, f.h, f.args)
       IN ev' = CallEv(f.h, f.fn, f.args,
                       [raw |-> f.c.res, native |-> f.c.native,
                        cif_abi |-> f.func.cif_abi,
                        ffi_ret |-> f.func.ffi_return_type,
                        invoked |-> Append(f.c.invoked,
                                           Invocation("errcheck", f.errcheck, a)),
                        res |-> CallManaged(f.errcheck, a)], f.word)
    /\ pc' = [pc EXCEPT ![t] = "idle"]
    /\ local' = [local EXCEPT ![t] = NoLocal]
    /\ UNCHANGED <<libcache, cacheWriter, loadLog, errs, dlls, funcs, callbacks>>

\* the value a hook assigns to a field of the handle it was given
HookValue(field) ==
    CASE field = "name" -> "nosym"
      [] field = "restype" -> CType("i")
      [] field = "argtypes" -> PyTuple(<<CType("i")>>)
      [] OTHER -> Unset

\* the running hook assigns to a field of its handle (the setter runs on
\* the thread of the call, inside vm.invoke)
HookSet(t, field) ==
    /\ pc[t] = "hook"
    /\ field # "abi"
    /\ WriteGrantable(local[t].h, field)
    /\ funcs' = [funcs EXCEPT ![local[t].h] = [@ EXCEPT ![field] = HookValue(field)]]
    /\ ev' = [NoEv EXCEPT !.op = "hook_set", !.t = t, !.h = local[t].h,
                          !.fn = funcs[local[t].h], !.path = field]
    /\ UNCHANGED <<libcache, cacheWriter, loadLog, errs, pc, local, dlls, callbacks>>

(***************************************************************************)
(* Inputs                                                                  *)
(***************************************************************************)
\* call-site argument values: a PyCSimple instance, a PyCArray instance and
\* a plain integer (which has no conversion)
ArgVals == {Obj("csimple", "i", 7, <<>>), Obj("carray", "i", 2, <<>>), PyInt(3)}

\* every argument list of at most n values
ArgLists(n) == UNION {[1..k -> ArgVals] : k \in 0..n}

SymbolNames == {"f", "nosym"}
c_int == CType("i")
ArgtypesInputs == {NoneObj, PyTuple(<<>>), PyTuple(<<c_int>>), PyTuple(<<c_int, c_int>>),
                   PyTuple(<<PyInt(42)>>), PyList(<<c_int, CType("B")>>), PyInt(42)}
RestypeInputs == {NoneObj, c_int, CType("?"), CType("Z"), PyFunc("dbl"), PyFunc("boom"),
                  PyInt(42)}
ErrcheckInputs == {NoneObj, PyFunc("dbl"), PyFunc("third"), PyFunc("boom"), PyInt(42)}

\* constructor tuples: (name, function), (name, integer), (name), (integer, function)
CtorInputs == {PyTuple(<<Obj("str", "cb", 0, <<>>), PyFunc("dbl")>>),
               PyTuple(<<Obj("str", "cb", 0, <<>>), PyInt(42)>>),
               PyTuple(<<Obj("str", "cb", 0, <<>>)>>),
               PyTuple(<<PyInt(1), PyFunc("dbl")>>)}
CallbackInputs == {PyFunc("dbl"), c_int, PyInt(42), NoneObj}

Init ==
    /\ libcache = [k \in {} |-> 0]
    /\ cacheWriter = NoThread
    /\ loadLog = << >>
    /\ errs = {}
    /\ pc = [t \in Threads |-> "idle"]
    /\ local = [t \in Threads |-> NoLocal]
    /\ dlls = {}
    /\ funcs = << >>
    /\ callbacks = {}
    /\ ev = NoEv

\* the system from construction: two threads, every operation; the program
\* makes one function handle and the handle operations draw from a narrow
\* range of inputs
Next ==
    \E t \in Threads :
        \/ \E cls \in Classes, name \in Paths : OpenAcquire(t, cls, name)
        \/ OpenLoad(t)
        \/ OpenDrop(t)
        \/ \E d \in dlls : funcs = << >> /\ GetAttr(t, d, "f")
        \/ \E h \in 1..MaxFuncs : SetErrcheck(t, h, PyFunc("dbl"))
        \/ \E h \in 1..MaxFuncs : Call(t, h, <<>>, 5)

Spec == Init /\ [][Next]_vars

\* the state after lib = CDLL("liba") and lib.f: the library is loaded and one
\* function handle exists
InitCall ==
    /\ libcache = [k \in {"liba"} |-> [file |-> FileOf("liba"), id |-> 1]]
    /\ cacheWriter = NoThread
    /\ loadLog = <<[path |-> "liba", cls |-> "CDLL"]>>
    /\ errs = {}
    /\ pc = [t \in Threads |-> "idle"]
    /\ local = [t \in Threads |-> NoLocal]
    /\ dlls = {NewDll("CDLL", "liba")}
    /\ funcs = <<NewForDll("f", "liba", DefaultAbi("CDLL"))>>
    /\ callbacks = {}
    /\ ev = [NoEv EXCEPT !.op = "getattr", !.cls = "CDLL", !.path = "liba", !.h = 1,
                         !.fn = NewForDll("f", "liba", DefaultAbi("CDLL")),
                         !.res = Ok(FuncRef(1))]

\* one thread sets the metadata of the function handle and calls it
NextCall ==
    \E h \in 1..Len(funcs) :
        \/ \E name \in SymbolNames : SetName("t1", h, name)
        \/ \E o \in RestypeInputs : SetRestype("t1", h, o)
        \/ \E o \in ArgtypesInputs : SetArgtypes("t1", h, o)
        \/ \E o \in ErrcheckInputs : SetErrcheck("t1", h, o)
        \/ \E args \in ArgLists(MaxArgs), w \in NativeVals : Call("t1", h, args, w)

SpecCall == InitCall /\ [][NextCall]_vars

\* the state after WinDLL("liba") followed by CDLL("liba"): the library was
\* loaded by the WinDLL open, two library handles share the entry
InitHandle ==
    /\ libcache = [k \in {"liba"} |-> [file |-> FileOf("liba"), id |-> 1]]
    /\ cacheWriter = NoThread
    /\ loadLog = <<[path |-> "liba", cls |-> "WinDLL"]>>
    /\ errs = {}
    /\ pc = [t \in Threads |-> "idle"]
    /\ local = [t \in Threads |-> NoLocal]
    /\ dlls = {NewDll("WinDLL", "liba"), NewDll("CDLL", "liba")}
    /\ funcs = << >>
    /\ callbacks = {}
    /\ ev = [NoEv EXCEPT !.op = "open", !.t = "t1", !.path = "liba",
                         !.res = Ok(Obj("dll", "liba", 0, <<>>))]

\* one thread creates one function handle (from either library handle or
\* from a managed callable) and callback objects, sets every field and calls
NextHandle ==
    \/ \E d \in dlls, name \in SymbolNames : funcs = << >> /\ GetAttr("t1", d, name)
    \/ \E tuple \in CtorInputs : funcs = << >> /\ PyCFuncPtrNew("t1", tuple)
    \/ \E o \in CallbackInputs : PyCallbackNew("t1", o)
    \/ \E h \in 1..Len(funcs) :
           \/ SetName("t1", h, "f")
           \/ \E o \in {c_int, NoneObj} : SetRestype("t1", h, o)
           \/ \E o \in {PyTuple(<<c_int>>), PyTuple(<<PyInt(42)>>), NoneObj} :
                  SetArgtypes("t1", h, o)
           \/ \E o \in {PyFunc("dbl"), NoneObj} : SetErrcheck("t1", h, o)
           \/ \E args \in ArgLists(1) : Call("t1", h, args, 5)

SpecHandle == InitHandle /\ [][NextHandle]_vars

\* from the same state, one thread makes function handles by attribute
\* access, as many as the bound allows, sets their fields and calls them
NextPair ==
    \/ \E d \in dlls, name \in SymbolNames : GetAttr("t1", d, name)
    \/ \E h \in 1..Len(funcs) :
           \/ SetName("t1", h, "f")
           \/ SetRestype("t1", h, c_int)
           \/ SetArgtypes("t1", h, PyTuple(<<c_int>>))
           \/ SetErrcheck("t1", h, PyFunc("dbl"))
           \/ Call("t1", h, <<>>, 5)

SpecPair == InitHandle /\ [][NextPair]_vars

\* from the state of InitCall, two threads call the handle step by step,
\* set its fields, from outside the call and from inside the hook, and open
\* libraries
NextStep ==
    \E t \in Threads :
        \/ \E h \in 1..Len(funcs) :
               \/ CallBegin(t, h, <<>>)
               \/ \E name \in SymbolNames : SetName(t, h, name)
               \/ \E o \in {CType("i"), NoneObj} : SetRestype(t, h, o)
               \/ \E o \in {PyTuple(<<CType("i")>>), NoneObj} : SetArgtypes(t, h, o)
               \/ \E o \in {PyFunc("dbl"), PyFunc("third"), NoneObj} : SetErrcheck(t, h, o)
        \/ \E name \in {"./liba", "libx"} : OpenAcquire(t, "CDLL", name)
        \/ OpenLoad(t)
        \/ OpenDrop(t)
        \/ CallNative(t, 5)
        \/ CallHook(t)
        \/ \E field \in MetadataFields : HookSet(t, field)

SpecStep == InitCall /\ [][NextStep]_vars

\* the type table and the marshal adapters, applied to every tag and to
\* values of every range
NextTags ==
    \/ \E tag \in Tags : ResolveTag("t1", tag)
    \/ \E tag \in Tags : \E v \in TagValues(tag) : RoundTrip("t1", tag, v)

SpecTags == Init /\ [][NextTags]_vars

(***************************************************************************)
(* Properties of the library registry (checked under Spec)                 *)
(***************************************************************************)
\* the successful native loads of the path string p
LoadsOf(p) == {i \in 1..Len(loadLog) : loadLog[i].path = p}

\* C1: whatever the interleaving of opens (of any of the four classes), a
\* path is natively loaded at most once and exactly once when it is in the
\* registry; a thread between the contains_key check and the end of py_new
\* holds the write lock; every library handle and every successful open
\* refers to a key of the registry.
C1_OneLoadPerPath ==
    /\ \A p \in Paths : Cardinality(LoadsOf(p)) = IF ContainsKey(p) THEN 1 ELSE 0
    /\ \A t \in Threads : pc[t] \in {"load", "drop"} => cacheWriter = t
    /\ \A d \in dlls : ContainsKey(d.library_name)
    /\ (ev.op = "open" /\ ev.res.ok) => ContainsKey(ev.path)

\* C1 witness: thread t1 has opened a path and natively loaded it; thread
\* t2, opening the same path through another class, holds the lock, has
\* found the entry and skips the load.
C1_Witness ==
    \E p \in Paths, t1, t2 \in Threads :
        /\ t1 # t2
        /\ Len(loadLog) = 1 /\ loadLog[1].path = p
        /\ ev.op = "open" /\ ev.t = t1 /\ ev.path = p /\ ev.res.ok /\ ev.loaded
        /\ pc[t2] = "drop" /\ local[t2].path = p /\ ~local[t2].loaded
        /\ \E d \in dlls : d.library_name = p /\ d.cls # local[t2].cls

\* C2: the registry key is the canonical path: two library handles for the
\* same file hold the same key, and a file is natively loaded at most once.
C2_CanonicalKey ==
    /\ \A d1, d2 \in dlls :
           FileOf(d1.library_name) = FileOf(d2.library_name)
               => d1.library_name = d2.library_name
    /\ \A i, j \in 1..Len(loadLog) :
           FileOf(loadLog[i].path) = FileOf(loadLog[j].path) => i = j

\* C3: the registry is insert-only: every step keeps every key present and
\* mapped to the same native library.
C3_InsertOnly ==
    [][\A k \in DOMAIN libcache : k \in DOMAIN libcache' /\ libcache'[k] = libcache[k]]_vars

\* C3 witness: two entries are in the registry, an open has failed, and a
\* call was the last operation.
C3_Witness ==
    /\ Cardinality(DOMAIN libcache) = 2
    /\ errs # {}
    /\ ev.op = "call"

\* C4: an open fails only with LoadError, only for a path the loader
\* rejects and only after a native load attempt made by that very call; the
\* failing step leaves the registry as it was; a path whose open failed has
\* no entry, and a thread skips the native load only for a key that is in
\* the registry.
C4_FailureNotCached ==
    /\ [](/\ (ev.op = "open" /\ ~ev.res.ok)
                => (ev.res.err = "LoadError" /\ ev.loaded /\ FileOf(ev.path) = NoFile)
          /\ \A p \in errs : ~ContainsKey(p)
          /\ \A t \in Threads : (pc[t] = "drop" /\ ~local[t].loaded)
                => ContainsKey(local[t].path))
    /\ [][\A t \in Threads : (pc[t] = "load" /\ pc'[t] = "idle") => libcache' = libcache]_vars

\* C4 witness: an open of a path that had already failed before fails
\* again, after a native load attempt of its own.
C4_Witness ==
    /\ ev.op = "open" /\ ~ev.res.ok /\ ev.loaded
    /\ ev.path \in ev.errsBefore

\* C5: the write lock is held only by a thread inside py_new, so never by a
\* thread whose open has failed; and every completed open of a path the
\* loader accepts succeeds, whatever failed before.
C5_LockReleasedOnError ==
    /\ cacheWriter # NoThread => pc[cacheWriter] \in {"load", "drop"}
    /\ (ev.op = "open" /\ FileOf(ev.path) # NoFile) => ev.res.ok

\* C5 witness: the last operation is an open that loaded its path and
\* succeeded, and an open has failed before it.
C5_Witness ==
    /\ ev.op = "open" /\ ev.res.ok /\ ev.loaded
    /\ errs # {}

(***************************************************************************)
(* Properties of the call protocol (checked under SpecCall)                *)
(***************************************************************************)
\* the event is a call of a symbol-bound handle
SymbolCall == ev.op = "call" /\ ev.fn.library_name # NoLibrary

\* Function::load built the descriptor of the call
DescriptorBuilt ==
    /\ SymbolCall
    /\ ContainsKey(ev.fn.library_name)
    /\ FunctionLoad(libcache[ev.fn.library_name], ev.fn.name, ev.fn.argtypes,
                    ev.fn.restype, ev.fn.abi).ok

\* the invocations of the error-check hook during the call
ErrcheckRuns == SelectSeq(ev.invoked, LAMBDA i : i.role = "errcheck")

\* C6: a call with m arguments of a handle with n # m declared argument
\* types never runs the native function, and once the descriptor is built
\* it fails with ArgumentCountError(expected n, got m).
C6_ArityMismatch ==
    (SymbolCall /\ ev.fn.argtypes.kind = "tuple"
        /\ Len(ev.args) # Len(ev.fn.argtypes.items))
    => /\ ev.native = 0
       /\ DescriptorBuilt =>
            ev.res = ErrCount("ArgumentCountError", Len(ev.fn.argtypes.items), Len(ev.args))

\* C6 witness: two declared types, three arguments: expected 2, got 3.
C6_Witness ==
    /\ SymbolCall /\ ev.fn.argtypes = PyTuple(<<c_int>>)
    /\ Len(ev.args) = 2
    /\ ev.res = ErrCount("ArgumentCountError", 1, 2)

\* C7: with unconstrained argument types (never set, or cleared) a call
\* does not fail with ArgumentCountError, whatever the number of arguments.
C7_UnconstrainedArity ==
    (SymbolCall /\ ev.fn.argtypes.kind = "unset") => ev.res.err # "ArgumentCountError"

\* C8: when the return specification is absent, a call that ran the native
\* function has the raw result None whatever word the native function
\* returned, and None is what the caller gets when no error-check hook
\* replaces it.
C8_VoidReturnsNone ==
    (SymbolCall /\ ev.fn.restype.kind = "unset" /\ ev.native > 0)
    => /\ ev.raw = Ok(NoneObj)
       /\ ev.fn.errcheck.kind = "unset" => ev.res = Ok(NoneObj)

\* C8 witness: the native function returned 5 and the call returned None.
C8_Witness ==
    /\ SymbolCall /\ ev.fn.restype.kind = "unset"
    /\ ev.native = 1 /\ ev.word = 5
    /\ ev.res = Ok(NoneObj)

\* C9: after a successful Function::call, a set error-check hook runs
\* exactly once with (raw result, the handle, the tuple of the call-site
\* arguments in their order) and its outcome is the outcome of the call;
\* with no hook the raw result is returned.
C9_ErrcheckApplied ==
    (SymbolCall /\ ev.raw.ok)
    => IF ev.fn.errcheck.kind # "unset"
       THEN /\ ErrcheckRuns = <<Invocation("errcheck", ev.fn.errcheck,
                                           <<ev.raw.val, FuncRef(ev.h), PyTuple(ev.args)>>)>>
            /\ ev.res = CallManaged(ev.fn.errcheck,
                                    <<ev.raw.val, FuncRef(ev.h), PyTuple(ev.args)>>)
       ELSE /\ ErrcheckRuns = <<>>
            /\ ev.res = ev.raw

\* C9 witness: the native function returns 5, the doubling hook makes it
\* 10, the call had two different arguments.
C9_Witness ==
    /\ SymbolCall /\ ev.fn.errcheck = PyFunc("dbl")
    /\ ev.raw = Ok(PyInt(5)) /\ ev.res = Ok(PyInt(10))
    /\ Len(ev.args) = 2 /\ ev.args[1] # ev.args[2]

\* C10: when the call fails before Function::call has returned a result
\* (library lookup, descriptor construction, arity, argument conversion,
\* decoding), the hook is not invoked and that failure is the result.
C10_NoErrcheckOnFailure ==
    (SymbolCall /\ ~ev.raw.ok) => (ErrcheckRuns = <<>> /\ ev.res = ev.raw)

\* C10 witness: a hook is set, the native function ran, the return
\* callable raised: the caller gets that failure.
C10_Witness ==
    /\ SymbolCall /\ ev.fn.errcheck.kind # "unset"
    /\ ev.native = 1 /\ ~ev.raw.ok
    /\ ev.res = Err("CallableRaised")

(***************************************************************************)
(* Properties of the calling convention (C11 under Spec, the others under  *)
(* SpecHandle)                                                             *)
(***************************************************************************)
\* C11: a handle made by attribute access on a WinDLL or OleDLL library
\* handle reports the convention name "stdcall", one made on a CDLL or PyDLL
\* library handle reports "cdecl".
C11_AbiNames ==
    (ev.op = "getattr" /\ ev.res.ok)
    => /\ ev.cls \in {"WinDLL", "OleDLL"} => GetAbi(funcs[ev.h]) = "stdcall"
       /\ ev.cls \in {"CDLL", "PyDLL"} => GetAbi(funcs[ev.h]) = "cdecl"

\* C11 witness: a handle made through an OleDLL library handle reports
\* "stdcall" while a C-convention library handle for the same path exists.
C11_Witness ==
    /\ ev.op = "getattr" /\ ev.res.ok /\ ev.cls = "OleDLL"
    /\ GetAbi(funcs[ev.h]) = "stdcall"
    /\ \E d \in dlls : d.library_name = ev.path /\ d.cls \in {"CDLL", "PyDLL"}

\* the class whose py_new natively loaded the registry entry of this key
LoaderOf(key) == loadLog[libcache[key].id].cls

\* C12: a handle made by attribute access has the default convention of
\* the library handle it was made from, whichever class loaded the library;
\* no step changes the convention of an existing handle.
C12_AbiFixed ==
    /\ []((ev.op = "getattr" /\ ev.res.ok)
            => \E d \in dlls : /\ d.cls = ev.cls /\ d.library_name = ev.path
                               /\ funcs[ev.h].abi = d.default_abi)
    /\ [][\A h \in 1..Len(funcs) : funcs'[h].abi = funcs[h].abi]_vars

\* C12 witness: the library was loaded by a WinDLL open; a handle made from
\* the CDLL library handle has the C convention.
C12_Witness ==
    /\ ev.op = "getattr" /\ ev.res.ok /\ ev.cls = "CDLL"
    /\ LoaderOf(ev.path) = "WinDLL"
    /\ funcs[ev.h].abi = "Cdecl"

\* C13: the call interface built for a call has the convention of the
\* handle: stdcall for a stdcall handle, the C convention (which is the
\* platform default) for a cdecl handle.
C13_CifUsesAbi ==
    (ev.op = "call" /\ ev.fn.library_name # NoLibrary /\ ev.cif_abi # "")
    => /\ ev.fn.abi = "Stdcall" => ev.cif_abi = "Stdcall"
       /\ ev.fn.abi = "Cdecl" => ev.cif_abi \in {"Cdecl", "Default"}

(***************************************************************************)
(* Properties of callback-bound handles and callback objects (checked      *)
(* under SpecHandle)                                                       *)
(***************************************************************************)
\* the event is a call of a handle that has no library
CallbackBoundCall == ev.op = "call" /\ ev.fn.library_name = NoLibrary

\* C14: a call of a callback-bound handle fails with Unimplemented whatever
\* the fields of the handle and the arguments; the native function does not
\* run, neither the wrapped callable nor the error-check hook is invoked,
\* and the step leaves the registry and its lock as they were.
C14_CallbackUnimplemented ==
    /\ [](CallbackBoundCall
            => /\ ev.res = Err("Unimplemented")
               /\ ev.native = 0
               /\ ev.invoked = <<>>)
    /\ [][(ev'.op = "call" /\ ev'.fn.library_name = NoLibrary)
            => (libcache' = libcache /\ cacheWriter' = cacheWriter
                /\ loadLog' = loadLog)]_vars

\* C14 witness: a callback-bound handle around a working callable, with a
\* return type, declared argument types and an error-check hook set, is
\* called with one argument and fails with Unimplemented.
C14_Witness ==
    /\ CallbackBoundCall
    /\ ev.fn.handler = PyFunc("dbl") /\ ev.fn.errcheck = PyFunc("dbl")
    /\ ev.fn.restype = c_int /\ ev.fn.argtypes = PyTuple(<<c_int>>)
    /\ Len(ev.args) = 1
    /\ ev.res = Err("Unimplemented")

\* C15: constructing a handle from (name, target) with a target that is not
\* callable fails with NotCallable and creates no handle, so the handler of
\* every callback-bound handle is callable.
C15_CtorValidatesCallable ==
    /\ (ev.op = "new" /\ Len(ev.input.items) >= 2 /\ ev.input.items[1].kind = "str"
        /\ ~IsCallable(ev.input.items[2]))
       => (ev.res = Err("NotCallable") /\ ev.h = 0)
    /\ \A h \in 1..Len(funcs) :
           funcs[h].library_name = NoLibrary => IsCallable(funcs[h].handler)

\* C16: constructing a callback object from a value that is not callable
\* fails with NotCallable; from a callable it succeeds and the object holds
\* that callable and no signature; every callback object holds a callable
\* and no signature.
C16_CallbackDescriptor ==
    /\ ev.op = "new_callback"
       => IF IsCallable(ev.input)
          THEN /\ ev.res = Ok(Obj("callback", "", 0, <<ev.input>>))
               /\ CallbackObject(ev.input, NoSignature) \in callbacks
          ELSE /\ ev.res = Err("NotCallable")
               /\ \A c \in callbacks : c.callable # ev.input
    /\ \A c \in callbacks : IsCallable(c.callable) /\ c.signature = NoSignature

\* C16 witness: a callback object around a managed function exists and the
\* construction from an integer has just failed.
C16_Witness ==
    /\ ev.op = "new_callback" /\ ev.input = PyInt(42)
    /\ ev.res = Err("NotCallable")
    /\ CallbackObject(PyFunc("dbl"), NoSignature) \in callbacks

(***************************************************************************)
(* Properties of the setters and of repeated calls (checked under          *)
(* SpecCall)                                                               *)
(***************************************************************************)
\* C17: set_errcheck stores a callable, clears the hook on None and
\* refuses any other value with NotCallable, leaving the hook as it was; the
\* stored hook is always absent or callable.
C17_ErrcheckValidated ==
    /\ ev.op = "set_errcheck"
       => CASE IsNone(ev.input) ->
                 ev.res.ok /\ funcs[ev.h].errcheck = Unset
            [] ~IsNone(ev.input) /\ IsCallable(ev.input) ->
                 ev.res.ok /\ funcs[ev.h].errcheck = ev.input
            [] OTHER ->
                 ev.res = Err("NotCallable") /\ funcs[ev.h].errcheck = ev.fn.errcheck
    /\ \A h \in 1..Len(funcs) :
           funcs[h].errcheck = Unset \/ IsCallable(funcs[h].errcheck)

\* C17 witness: a hook is set; setting an integer is refused and the hook
\* stays.
C17_Witness ==
    /\ ev.op = "set_errcheck" /\ ev.input = PyInt(42)
    /\ ev.res = Err("NotCallable")
    /\ ev.fn.errcheck = PyFunc("dbl") /\ funcs[ev.h].errcheck = PyFunc("dbl")

\* C18: set_restype refuses a value that is neither None, a ctypes type nor
\* a callable with InvalidReturnSpec and leaves the stored return
\* specification as it was.
C18_RestypeValidated ==
    (ev.op = "set_restype" /\ ~IsNone(ev.input) /\ ~IsCtypesType(ev.input)
        /\ ~IsCallable(ev.input))
    => /\ ev.res = Err("InvalidReturnSpec")
       /\ funcs[ev.h].restype = ev.fn.restype

\* C19: after a call, failed or not, the handle has the fields it had when
\* the call began; the call step changes no handle, and neither the
\* registry nor its lock.
C19_CallKeepsMetadata ==
    /\ [](ev.op = "call" => funcs[ev.h] = ev.fn)
    /\ [][ev'.op = "call"
            => (funcs' = funcs /\ libcache' = libcache /\ cacheWriter' = cacheWriter
                /\ loadLog' = loadLog)]_vars

\* C19 witness: a call with a return type, declared argument types and a
\* hook set ran the native function and its return callable raised; the
\* handle still has those fields.
C19_Witness ==
    /\ ev.op = "call" /\ ev.native = 1 /\ ev.res = Err("CallableRaised")
    /\ ev.fn.restype = PyFunc("boom") /\ ev.fn.errcheck = PyFunc("third")
    /\ ev.fn.argtypes = PyTuple(<<c_int>>)
    /\ funcs[ev.h] = ev.fn

\* C20: a call behaves by the fields the handle holds when the call is
\* made: the arity is that of the stored argument types, the raw result is
\* decoded by the stored return specification, and a field set by the step
\* just before is the one the call uses.
C20_NoCaching ==
    [][ev'.op = "call" =>
        LET fn == funcs[ev'.h]
        IN /\ ev'.fn = fn
           /\ (ev.op = "set_restype" /\ ev.h = ev'.h /\ ~IsNone(ev.input))
                => fn.restype = ev.input
           /\ (ev.op = "set_argtypes" /\ ev.h = ev'.h /\ ev.input.kind = "tuple")
                => fn.argtypes = ev.input
           /\ ev'.native = 1
                => /\ fn.argtypes.kind = "tuple"
                        => Len(ev'.args) = Len(fn.argtypes.items)
                   /\ fn.restype = Unset => ev'.raw = Ok(NoneObj)
                   /\ fn.restype = c_int => ev'.raw = Ok(PyInt(ev'.word))
                   /\ fn.restype = CType("?") => ev'.raw = Ok(PyBool(ev'.word # 0))
                   /\ fn.restype = PyFunc("dbl") => ev'.raw = Ok(PyInt(2 * ev'.word))
           /\ (fn.argtypes.kind = "tuple" /\ Len(ev'.args) # Len(fn.argtypes.items))
                => ev'.native = 0
           /\ (fn.restype # Unset /\ ~IsCtypesType(fn.restype) /\ ~IsCallable(fn.restype))
                => ev'.native = 0
      ]_vars

\* C20 witness: with the return type c_int and one declared argument type,
\* both set after construction, a call with one argument returns the word
\* of the native function as an integer.
C20_Witness ==
    /\ ev.op = "call" /\ ev.fn.library_name # NoLibrary
    /\ ev.fn.restype = c_int /\ ev.fn.argtypes = PyTuple(<<c_int>>)
    /\ ev.fn.errcheck = Unset
    /\ Len(ev.args) = 1 /\ ev.native = 1 /\ ev.word = 5
    /\ ev.res = Ok(PyInt(5))

(***************************************************************************)
(* Properties of handle creation (checked under SpecPair)                  *)
(***************************************************************************)
SetterOps == {"set_name", "set_restype", "set_argtypes", "set_errcheck"}

\* C21: an attribute access adds one handle, with a new identity and with
\* no argument types, no return specification and no error-check hook, and
\* leaves the existing handles as they are; a setter changes no handle but
\* the one it is applied to.
C21_FreshHandles ==
    [][/\ (ev'.op = "getattr" /\ ev'.res.ok)
            => /\ Len(funcs') = Len(funcs) + 1 /\ ev'.h = Len(funcs) + 1
               /\ \A h \in 1..Len(funcs) : funcs'[h] = funcs[h]
               /\ funcs'[ev'.h].argtypes = Unset
               /\ funcs'[ev'.h].restype = Unset
               /\ funcs'[ev'.h].errcheck = Unset
       /\ ev'.op \in SetterOps
            => /\ Len(funcs') = Len(funcs)
               /\ \A h \in 1..Len(funcs) : h # ev'.h => funcs'[h] = funcs[h]
      ]_vars

\* C21 witness: two handles of the same name on the same library; the
\* first has a return type and a hook, set after the second was made, the
\* second has none.
C21_Witness ==
    /\ Len(funcs) = 2
    /\ funcs[1].name = funcs[2].name /\ funcs[1].library_name = funcs[2].library_name
    /\ funcs[1].abi = funcs[2].abi
    /\ funcs[1].restype = c_int /\ funcs[1].errcheck = PyFunc("dbl")
    /\ funcs[2].restype = Unset /\ funcs[2].errcheck = Unset /\ funcs[2].argtypes = Unset
    /\ ev.op = "set_errcheck" /\ ev.h = 1

(***************************************************************************)
(* Properties of descriptor construction and of the call (checked under    *)
(* SpecCall, whose handle was made for the symbol "f" of "liba")           *)
(***************************************************************************)
\* the symbol name PyCFuncPtr::call hands to Function::load
ResolvedSymbol == ev.fn.name

\* C22: whatever setters ran before, display name included, a call of the
\* handle made for the symbol "f" of "liba" resolves "f" in "liba", so it
\* never fails with SymbolNotFound.
C22_IdentityFixed ==
    SymbolCall
    => /\ ev.fn.library_name = "liba"
       /\ ResolvedSymbol = "f"
       /\ ev.res.err # "SymbolNotFound"

\* the invocations of the return callable during the call
RestypeRuns == SelectSeq(ev.invoked, LAMBDA i : i.role = "restype")

\* the call got as far as the classification of the return specification
ReachedRestype ==
    /\ SymbolCall /\ ContainsKey(ev.fn.library_name)
    /\ ev.fn.argtypes.kind \in {"unset", "tuple"}
    /\ ev.fn.argtypes.kind = "tuple"
         => \A i \in 1..Len(ev.fn.argtypes.items) :
                /\ ev.fn.argtypes.items[i].kind = "ctype"
                /\ FfiTypeFromStr(ev.fn.argtypes.items[i].tag) # ""
    /\ ev.fn.name \in Exports(libcache[ev.fn.library_name].file)

\* C23: descriptor construction classifies the return specification into
\* one outcome: absent gives a void return; a ctypes type with a tag of the
\* table gives the native type of the tag and is never invoked, although it
\* is callable; a callable that is no ctypes type gives a signed 32-bit
\* return; any other value fails with InvalidReturnSpec (a ctypes type
\* with a tag outside the table with UnsupportedType) and the native
\* function does not run.
C23_RestypeClassified ==
    ReachedRestype
    => CASE ev.fn.restype = Unset ->
              /\ ev.ffi_ret = "void"
              /\ ev.native = 1 => ev.raw = Ok(NoneObj)
         [] IsCtypesType(ev.fn.restype) /\ FfiTypeFromStr(ev.fn.restype.tag) # "" ->
              /\ ev.ffi_ret = FfiTypeFromStr(ev.fn.restype.tag)
              /\ RestypeRuns = <<>>
         [] IsCtypesType(ev.fn.restype) /\ FfiTypeFromStr(ev.fn.restype.tag) = "" ->
              /\ ev.res = Err("UnsupportedType")
              /\ ev.native = 0 /\ ev.ffi_ret = ""
         [] ev.fn.restype # Unset /\ ~IsCtypesType(ev.fn.restype)
                /\ IsCallable(ev.fn.restype) ->
              /\ ev.ffi_ret = "sint32"
              /\ ev.native = 1 => Len(RestypeRuns) = 1
         [] OTHER ->
              /\ ev.res = Err("InvalidReturnSpec")
              /\ ev.native = 0 /\ ev.ffi_ret = ""

\* C23 witness: the return type is the ctypes type with the tag "?": the
\* native return type is uint8, the type is not invoked and the word 5
\* comes back as True.
C23_Witness ==
    /\ ReachedRestype /\ ev.fn.restype = CType("?")
    /\ ev.ffi_ret = "uint8" /\ ev.native = 1 /\ ev.word = 5
    /\ ev.invoked = <<>> /\ ev.res = Ok(PyBool(TRUE))

\* C24: when the return specification is a callable f that is no ctypes
\* type and the native function ran, f is invoked exactly once, with the
\* integer the native function returned as its only argument; the raw
\* result of the call is what f returned, and a failure of f is the failure
\* of the call.
C24_Transformed ==
    (SymbolCall /\ ev.native = 1 /\ ev.fn.restype # Unset
        /\ ~IsCtypesType(ev.fn.restype) /\ IsCallable(ev.fn.restype))
    => /\ RestypeRuns = <<Invocation("restype", ev.fn.restype, <<PyInt(ev.word)>>)>>
       /\ ev.raw = CallManaged(ev.fn.restype, <<PyInt(ev.word)>>)
       /\ ~ev.raw.ok => ev.res = ev.raw

\* C24 witness: the return callable doubles; the native function returns 5
\* and the call returns 10.
C24_Witness ==
    /\ SymbolCall /\ ev.fn.restype = PyFunc("dbl") /\ ev.fn.errcheck = Unset
    /\ ev.native = 1 /\ ev.word = 5
    /\ ev.invoked = <<Invocation("restype", PyFunc("dbl"), <<PyInt(5)>>)>>
    /\ ev.res = Ok(PyInt(10))

C26_NoLibraryNotFound ==
    /\ \A d \in dlls : ContainsKey(d.library_name)
    /\ \A h \in 1..Len(funcs) :
           funcs[h].library_name # NoLibrary => ContainsKey(funcs[h].library_name)
    /\ ev.op \in {"getattr", "call"} => ev.res.err # "LibraryNotFound"

\* C26 witness: a handle made from the library opened as "./liba" is called
\* and the native function runs, after another open has failed and while
\* the registry holds two entries.
C26_Witness ==
    /\ ev.op = "call" /\ ev.fn.library_name = "./liba" /\ ev.native = 1
    /\ errs # {}
    /\ Cardinality(DOMAIN libcache) = 2

(***************************************************************************)
(* Properties of the locks of a function handle (checked under SpecStep)   *)
(***************************************************************************)
\* C27: while a call is inside the native function or inside the
\* error-check hook it holds no read guard of a field of its handle, so the
\* write lock of every field can be granted to a setter, of another thread
\* or of the hook itself.
C27_SettersNotBlocked ==
    \A t \in Threads :
        pc[t] \in {"native", "hook"}
            => \A field \in MetadataFields : WriteGrantable(local[t].h, field)

(***************************************************************************)
(* Properties of the call descriptor (checked under SpecCall)              *)
(***************************************************************************)
\* C28: a call of a handle whose symbol the library does not export fails
\* with SymbolNotFound, whatever the declared argument types and the return
\* specification are.
C28_SymbolFirst ==
    (/\ SymbolCall
     /\ ContainsKey(ev.fn.library_name)
     /\ ev.fn.name \notin Exports(libcache[ev.fn.library_name].file))
        => ev.res = Err("SymbolNotFound")

\* C29: set_argtypes clears the field for None, stores a tuple as it is,
\* stores a list as the tuple of the same elements in the same order, and
\* rejects any other value leaving the field as it was; the stored argument
\* types are always absent or a tuple, and no call fails because they are
\* not a tuple.
C29_ArgtypesForms ==
    /\ \A h \in 1..Len(funcs) : funcs[h].argtypes.kind \in {"unset", "tuple"}
    /\ ev.op = "call" => ev.res.err # "ArgtypesNotTuple"
    /\ ev.op = "set_argtypes" =>
           CASE ev.input.kind = "none" ->
                    ev.res.ok /\ funcs[ev.h].argtypes = Unset
             [] ev.input.kind = "tuple" ->
                    ev.res.ok /\ funcs[ev.h].argtypes = ev.input
             [] ev.input.kind = "list" ->
                    /\ ev.res.ok
                    /\ funcs[ev.h].argtypes.kind = "tuple"
                    /\ funcs[ev.h].argtypes.items = ev.input.items
             [] OTHER ->
                    ~ev.res.ok /\ funcs[ev.h].argtypes = ev.fn.argtypes

\* C29 witness: a list of two types is assigned over a one-element tuple
\* and is stored as the tuple of the two types.
C29_Witness ==
    /\ ev.op = "set_argtypes" /\ ev.input.kind = "list"
    /\ ev.fn.argtypes = PyTuple(<<CType("i")>>)
    /\ funcs[ev.h].argtypes = PyTuple(<<CType("i"), CType("B")>>)

\* C30: within one call the native function runs at most once, and it runs
\* only when the library was found, every declared argument type and the
\* symbol were resolved, the return specification was classified, the
\* number of arguments matched and every argument was converted; a call
\* that fails at one of these steps does not run the native function.
C30_NativeGuarded ==
    ev.op = "call" =>
        /\ ev.native \in {0, 1}
        /\ ev.native = 1 =>
               /\ ev.fn.library_name # NoLibrary
               /\ ContainsKey(ev.fn.library_name)
               /\ ev.fn.argtypes.kind = "tuple" =>
                      \A i \in 1..Len(ev.fn.argtypes.items) :
                          /\ ev.fn.argtypes.items[i].kind = "ctype"
                          /\ FfiTypeFromStr(ev.fn.argtypes.items[i].tag) # ""
               /\ ev.fn.name \in Exports(libcache[ev.fn.library_name].file)
               /\ ClassifyRestype(ev.fn.restype).err = ""
               /\ Len(ev.args) = Len(FfiArgTypes(ev.fn.argtypes))
               /\ \A i \in 1..Len(ev.args) : ev.args[i].kind \in {"csimple", "carray"}
        /\ ev.raw.err \in {"LibraryNotFound", "ArgtypesNotTuple", "UnsupportedType",
                           "SymbolNotFound", "InvalidReturnSpec", "ArgumentCountError",
                           "UnsupportedArgumentType"}
               => ev.native = 0

\* C30 witness: a call with two converted arguments of a handle with two
\* declared types and a typed return runs the native function once.
C30_Witness ==
    /\ ev.op = "call" /\ ev.native = 1
    /\ Len(ev.args) = 2
    /\ ev.fn.argtypes = PyTuple(<<CType("i"), CType("i")>>)
    /\ ev.fn.restype = CType("i")
    /\ ev.res = Ok(PyInt(5))

(***************************************************************************)
(* Properties of the registry lock during a call (checked under SpecStep)  *)
(***************************************************************************)
\* C31: while a call is inside the native function or inside the
\* error-check hook it holds no guard of the registry, so the write lock of
\* the registry can be granted to an open, of another thread or of the hook
\* itself.
C31_RegistryFreeDuringCall ==
    \A t \in Threads :
        pc[t] \in {"native", "hook"}
            => /\ "libcache" \notin local[t].guards
               /\ WriteLockFree

(***************************************************************************)
(* Properties of attribute access (checked under SpecHandle)               *)
(***************************************************************************)
\* C32: attribute access on a library handle succeeds for every name and
\* returns a handle of that name, whether the library exports the name or
\* not; every call of a handle whose name the library does not export fails
\* with SymbolNotFound.
C32_SymbolCheckedAtCall ==
    /\ ev.op = "getattr" => ev.res.ok /\ funcs[ev.h].library_name = ev.path
    /\ (/\ SymbolCall
        /\ ev.fn.name \notin Exports(libcache[ev.fn.library_name].file))
           => /\ ev.res = Err("SymbolNotFound")
              /\ ev.native = 0

(***************************************************************************)
(* Properties of the order of the reads of a call (checked under SpecStep) *)
(***************************************************************************)
\* C33: when the native function of a call returns, the result is decoded
\* by the return specification the handle had when the call began, whatever
\* the handle holds now, and the hook that runs is the one the handle holds
\* now, whatever it held when the call began: with a hook now set the call
\* enters that hook, with none set the call ends with the decoded result.
C33_ReadOrder ==
    [][\A t \in Threads :
          (pc[t] = "native" /\ pc'[t] # "native") =>
              LET h == local[t].h
                  decoded == IF local[t].fn.restype.kind = "unset"
                             THEN Ok(NoneObj) ELSE Ok(PyInt(5))
              IN IF funcs[h].errcheck.kind # "unset"
                 THEN /\ pc'[t] = "hook"
                      /\ local'[t].errcheck = funcs[h].errcheck
                      /\ local'[t].c.res = decoded
                 ELSE /\ pc'[t] = "idle"
                      /\ ev'.op = "call" /\ ev'.invoked = <<>>
                      /\ ev'.res = decoded]_vars

\* C33 witness: a call that began with no hook and no return specification
\* is inside the hook set while its native function ran, with the result
\* None, the handle now having the return specification c_int and one
\* declared argument type.
C33_Witness ==
    \E t \in Threads :
        /\ pc[t] = "hook"
        /\ local[t].fn.errcheck = Unset /\ local[t].errcheck = PyFunc("dbl")
        /\ local[t].fn.restype = Unset /\ funcs[local[t].h].restype = CType("i")
        /\ local[t].fn.argtypes = Unset
        /\ funcs[local[t].h].argtypes = PyTuple(<<CType("i")>>)
        /\ local[t].c.res = Ok(NoneObj)
====
